---------------------------- MODULE Spec2Model ----------------------------
(***************************************************************************)
(* A state-machine model of src/main.go: a gin server that runs Lua        *)
(* scripts synchronously (POST /runLuaFile/:filename), asynchronously      *)
(* (POST /runLuaFileAsync/:filename, then GET /status/:id), behind a       *)
(* per-IP rate limiter middleware.                                         *)
(*                                                                         *)
(* Every request is served by its own goroutine (a task).  A task's pc     *)
(* names the next shared-memory access of its code; everything between two *)
(* shared accesses is local and is folded into the step.  The background   *)
(* goroutine of an asynchronous request continues in the task that         *)
(* started it (the handler has answered by then).                          *)
(*                                                                         *)
(* scriptCache and visitors are guarded by mutexes held around one map     *)
(* operation, so each of their accesses is one atomic step.                *)
(* scriptStatuses is a plain Go map accessed without any lock: an access   *)
(* that overlaps a write of another goroutine is a data race, modelled as  *)
(* a choice between the access working, the runtime's fatal error          *)
(* ("concurrent map read and map write", "concurrent map writes") and, for *)
(* a read, not finding an entry that is there (the map is being changed).  *)
(***************************************************************************)
EXTENDS Integers, FiniteSets, Sequences, TLC

\* ------------------------------------------------------------------ bounds
\* Number of requests over a run of the job tracker (Spec).
NJobTasks == 2
\* Requests in flight at once (background goroutines included).
MaxConc == 2
\* Clock ticks a run may last.
MaxTime == 2
\* Clock ticks per second: tokens are counted in 1/TicksPerSec of a token.
TicksPerSec == 2
\* Changes the environment makes to the script files on disk over a run.
MaxWrites == 2

\* ------------------------------------------------------- program constants
\* rate.NewLimiter(1, 3): one token per second, burst of three.
Limit == 1
Burst == 3

\* Number of requests over a run of the rate limiter: one more than a full
\* bucket admits at one instant.
NTasks == Burst + 1
Tasks == 1..NTasks
\* Number of requests over a run in which a third request races with two.
NRaceTasks == NJobTasks + 1
Clients == {"ip1", "ip2"}
\* The script directory at start holds a script that returns a greeting, one
\* that raises a runtime error and one that loops; gone.lua is no file.
Names == {"ok.lua", "bad.lua", "spin.lua", "gone.lua"}
\* Other script files of the directory: one that ends without a return, one
\* that sets headers and calls httpGet (as test.lua does), one that calls
\* httpPost with a table of one field, one that calls it with an empty table.
HostNames == {"noret.lua", "hdr.lua", "post.lua", "post0.lua"}
\* Names that are no script of the directory: the parent directory, and a
\* path into another directory.
OddNames == {"..", "a/b.lua"}
\* Everything a :filename can be.
Paths == Names \cup HostNames \cup OddNames
\* Request bodies that decode to an object of string values.
Payloads == {"p", "q"}
\* Other request bodies: an object holding a number, and text that is no JSON.
OddPayloads == {"num", "notjson"}
\* What a script file may hold: a script that returns a value built from the
\* payload, one that raises a runtime error, one that loops forever.
Contents == {"ok", "bad", "spin"}
\* What the other script files hold.
HostContents == {"noret", "hdr", "post", "post0"}
Kinds == {"sync", "async", "poll"}
\* What disk holds for a name that is a directory.
IsDir == "dir"
\* The keys and values a script passes to setHeader.
HeaderKeys == {"X", "Y"}
HeaderValues == {"v1", "v2"}
NoHeader == "unset"

NoContent == "none"
NoErr == "nil"
\* A job id no Submit ever returned.
UnknownId == 0
\* visitors[ip] of an ip that has no entry.
NoLimiter == 0

Min(a, b) == IF a < b THEN a ELSE b

VARIABLES
  now,            \* wall clock, in ticks
  disk,           \* backing storage: name -> content or NoContent (absent)
  writes,         \* number of changes made to the disk so far
  visitors,       \* map ip -> limiter (the id of the task that made it)
  limiters,       \* heap of rate.Limiter objects: id -> [tokens, last]
  scriptCache,    \* map name -> content or NoContent
  scriptStatuses, \* map job id -> *ScriptStatus
  mapWriters,     \* tasks inside a write of scriptStatuses
  crashed,        \* the process died (fatal error or unrecovered panic)
  req,            \* the request a task serves
  pc,             \* where a task is
  limiter,        \* a task's local: the limiter getVisitor returned
  content,        \* a task's local: the script content runLuaScript loaded
  result,         \* a task's local: runLuaScript's first return value
  err,            \* a task's local: runLuaScript's second return value
  snap,           \* a task's local: what the status handler has read so far
  resp,           \* the response a task has sent
  spin,           \* a looping script's progress (which half of the loop)
  lstates,        \* heap of *lua.LState objects: id -> globals and status
  mtx,            \* holder of mtx (0: unlocked)
  rw,             \* scriptCacheMutex: its writer (0: none) and its readers
  reads,          \* instrumentation: ReadFile calls per name
  firstCached,    \* instrumentation: the first content cached per name
  bucketsMade,    \* instrumentation: limiters created per ip
  grantedNow      \* instrumentation: requests admitted per ip at this instant

vars == <<now, disk, writes, visitors, limiters, scriptCache, scriptStatuses,
          mapWriters, crashed, req, pc, limiter, content, result, err, snap,
          resp, spin, lstates, mtx, rw, reads, firstCached, bucketsMade,
          grantedNow>>

\* ------------------------------------------------------------------ values
NoReq == [kind |-> "none", ip |-> "", name |-> "", payload |-> "", id |-> UnknownId]
\* A lua table with no field set.
NoHeaders == [k \in HeaderKeys |-> NoHeader]
NoResp == [code |-> 0, id |-> UnknownId, body |-> "", finished |-> FALSE,
           result |-> "", error |-> NoErr, headers |-> NoHeaders]
NoStatus == [exists |-> FALSE, Finished |-> FALSE, Result |-> "", Error |-> NoErr]
NoSnap == [Finished |-> FALSE, Result |-> "", Error |-> NoErr]

\* No interpreter; sync.Mutex and sync.RWMutex unlocked.
NoLState == [state |-> "none", payload |-> "", headers |-> NoHeaders]
NoTask == 0
RWFree == [writer |-> NoTask, readers |-> {}]

\* A faulty RUnlock that leaves the read lock held.
RUnlockMissing(l, t) == l

\* scriptCacheMutex.RUnlock() by task t.
RUnlock(l, t) == [l EXCEPT !.readers = @ \ {t}]

\* &ScriptStatus{Finished: false}
NewStatus == [exists |-> TRUE, Finished |-> FALSE, Result |-> "", Error |-> NoErr]

\* ------------------------------------------------------------ rate.Limiter
\* The zero time.Time of a new limiter's last: long enough ago to fill it.
ZeroTime == 0 - (Burst * TicksPerSec)

\* rate.NewLimiter(1, 3)
NewLimiter == [tokens |-> 0, last |-> ZeroTime]

\* lim.advance(now): the tokens available at time t, capped at the burst.
Advance(lim, t) == Min(Burst * TicksPerSec, lim.tokens + (t - lim.last) * Limit)

\* limiter.Allow(): whether one token is available at time t.
AllowOk(lim, t) == Advance(lim, t) >= TicksPerSec

\* A faulty Allow that takes a token whether or not one is available.
AfterAllowAlwaysTakes(lim, t) ==
  [tokens |-> Advance(lim, t) - TicksPerSec, last |-> t]

\* A faulty Allow that admits without taking a token.
AfterAllowTakesNone(lim, t) == lim

\* limiter.Allow(): the limiter after the call (a denied call changes nothing).
AfterAllow(lim, t) ==
  IF AllowOk(lim, t)
  THEN [tokens |-> Advance(lim, t) - TicksPerSec, last |-> t]
  ELSE lim

\* ------------------------------------------------------------ runLuaScript
\* L.DoString(content) followed by L.Get(-1).String(): the value the script
\* returns for a payload.
\* A script that ends without a return leaves the stack empty: L.Get(-1) is
\* then LNil, whose String() is "nil".
ScriptValue(c, p) ==
  IF c = "noret" THEN "nil"
  ELSE IF p = "p" THEN "Hello, p!" ELSE "Hello, q!"

\* The error L.DoString returns: the script's own runtime error, or the
\* panic of a host function, which PCall recovers and returns as an error
\* (httpPost writes into its nil bodyMap for every field of the table).
ScriptError(c) ==
  CASE c = "bad" -> "fault"
    [] c = "post" -> "panic: assignment to entry in nil map"
    [] OTHER -> NoErr

\* A faulty return that hands back the script's value together with the error.
RunReturnKeepsValue(c, p) ==
  [result |-> ScriptValue(c, p), err |-> ScriptError(c)]

\* What runLuaScript returns once L.DoString has returned.
RunReturn(c, p) ==
  IF ScriptError(c) # NoErr THEN [result |-> "", err |-> ScriptError(c)]
  ELSE [result |-> ScriptValue(c, p), err |-> NoErr]

\* The setHeader calls a script makes, in order, before its host call.
HeaderWrites(c) ==
  IF c = "hdr" THEN <<<<"X", "v1">>, <<"Y", "v1">>, <<"X", "v2">>>> ELSE <<>>

\* The outbound call a script makes: httpGet, httpPost, or none.  (The
\* httpPost of a table with fields panics before anything is sent.)
HostCall(c) ==
  CASE c = "hdr" -> "httpGet"
    [] c = "post0" -> "httpPost"
    [] OTHER -> "none"

\* headers.RawSetString(key, value) for each call of ws, first to last.
RECURSIVE SetHeaders(_, _)
SetHeaders(h, ws) ==
  IF ws = <<>> THEN h
  ELSE SetHeaders([h EXCEPT ![ws[1][1]] = ws[1][2]], Tail(ws))

\* A faulty ReadFile that finds no file.
ReadFileFindsNothing(d, n) == NoContent

\* ioutil.ReadFile(filename) on the disk d: what the name holds now.
ReadFile(d, n) == d[n]

\* filepath.Base(filename)
Base(n) == IF n = "a/b.lua" THEN "b.lua" ELSE n

\* c.ShouldBindJSON(&jsonData) returns no error.
BindsJSON(p) == p # "notjson"

\* mapToTable's v.(string) holds for every value of the payload.
AllStrings(p) == p # "num"

\* The checks at the head of both POST handlers: the text of the 400 answer,
\* or "" when the request passes.
Validate(r) ==
  CASE Base(r.name) # r.name -> "Invalid filename"
    [] ~BindsJSON(r.payload) -> "Invalid JSON"
    [] OTHER -> ""

\* A faulty lua.NewState() that hands every run the same interpreter.
LStateShared(t) == 1

\* The interpreter of a run: lua.NewState() makes a new one for every call.
LStateOf(t) == t

\* A faulty closure in which every goroutine shares one id.
StatusTargetShared(t) == 1

\* The job a background goroutine's scriptStatuses[id] names: the id its
\* closure captured.
StatusTarget(t) == t

\* ------------------------------------------------------------------- Init
Init ==
  /\ now = 0
  /\ disk = [n \in Paths |->
               CASE n = "ok.lua" -> "ok"
                 [] n = "bad.lua" -> "bad"
                 [] n = "spin.lua" -> "spin"
                 [] n = "noret.lua" -> "noret"
                 [] n = "hdr.lua" -> "hdr"
                 [] n = "post.lua" -> "post"
                 [] n = "post0.lua" -> "post0"
                 [] n = "a/b.lua" -> "ok"
                 [] n = ".." -> IsDir
                 [] OTHER -> NoContent]
  /\ writes = 0
  /\ visitors = [c \in Clients |-> NoLimiter]
  /\ limiters = [t \in Tasks |-> NewLimiter]
  /\ scriptCache = [n \in Paths |-> NoContent]
  /\ scriptStatuses = [t \in Tasks |-> NoStatus]
  /\ mapWriters = {}
  /\ crashed = FALSE
  /\ lstates = [t \in Tasks |-> NoLState]
  /\ mtx = NoTask
  /\ rw = RWFree
  /\ req = [t \in Tasks |-> NoReq]
  /\ pc = [t \in Tasks |-> "idle"]
  /\ limiter = [t \in Tasks |-> NoLimiter]
  /\ content = [t \in Tasks |-> NoContent]
  /\ result = [t \in Tasks |-> ""]
  /\ err = [t \in Tasks |-> NoErr]
  /\ snap = [t \in Tasks |-> NoSnap]
  /\ resp = [t \in Tasks |-> NoResp]
  /\ spin = [t \in Tasks |-> 0]
  /\ reads = [n \in Paths |-> 0]
  /\ firstCached = [n \in Paths |-> NoContent]
  /\ bucketsMade = [c \in Clients |-> 0]
  /\ grantedNow = [c \in Clients |-> 0]

\* The process dies (a fatal error of the runtime, or a panic nobody
\* recovers): everything it held in memory is gone and nothing runs any more.
Crash ==
  /\ crashed' = TRUE
  /\ visitors' = [c \in Clients |-> NoLimiter]
  /\ limiters' = [t \in Tasks |-> NewLimiter]
  /\ scriptCache' = [n \in Paths |-> NoContent]
  /\ lstates' = [t \in Tasks |-> NoLState]
  /\ mtx' = NoTask
  /\ rw' = RWFree
  /\ scriptStatuses' = [t \in Tasks |-> NoStatus]
  /\ mapWriters' = {}
  /\ req' = [t \in Tasks |-> NoReq]
  /\ pc' = [t \in Tasks |-> "dead"]
  /\ limiter' = [t \in Tasks |-> NoLimiter]
  /\ content' = [t \in Tasks |-> NoContent]
  /\ result' = [t \in Tasks |-> ""]
  /\ err' = [t \in Tasks |-> NoErr]
  /\ snap' = [t \in Tasks |-> NoSnap]
  /\ resp' = [t \in Tasks |-> NoResp]
  /\ spin' = [t \in Tasks |-> 0]
  /\ reads' = [n \in Paths |-> 0]
  /\ firstCached' = [n \in Paths |-> NoContent]
  /\ bucketsMade' = [c \in Clients |-> 0]
  /\ grantedNow' = [c \in Clients |-> 0]
  /\ UNCHANGED <<now, disk, writes>>

\* ---------------------------------------------------------------- helpers
InFlight == {t \in Tasks : pc[t] \notin {"idle", "done"}}

\* The ids the asynchronous entry has handed back so far.
ReturnedIds == {j \in Tasks : req[j].kind = "async" /\ resp[j].code = 200}

\* scriptStatuses[id] as a Go map read: the zero value for a missing key.
Lookup(id) == IF id \in Tasks THEN scriptStatuses[id] ELSE NoStatus

\* A read of scriptStatuses by t overlaps a write of another goroutine.
RacingRead(t) == mapWriters \ {t} # {}

\* The requests a client may send: a run of a script, or a poll for an id.
RunRequests(kinds, ips, names, payloads) ==
  [kind : kinds, ip : ips, name : names, payload : payloads, id : {UnknownId}]

PollRequests(ips, ids) ==
  [kind : {"poll"}, ip : ips, name : {""}, payload : {""}, id : ids]

\* The first step of a handler once the middleware has called c.Next().
HandlerEntry(kind) ==
  CASE kind = "poll" -> "p_lookup"
    [] kind = "async" -> "a_assign"
    [] OTHER -> "r_lookup"

\* ------------------------------------------------------------ environment
\* A request of the set R arrives and gin starts a goroutine for it; n is
\* the number of requests of the run.
Arrive(t, R, n) ==
  /\ ~crashed
  /\ t <= n
  /\ pc[t] = "idle"
  /\ \A u \in Tasks : u < t => pc[u] # "idle"
  /\ Cardinality(InFlight) < MaxConc
  /\ \E r \in R : req' = [req EXCEPT ![t] = r]
  /\ pc' = [pc EXCEPT ![t] = "getVisitor"]
  /\ UNCHANGED <<now, disk, writes, visitors, limiters, scriptCache,
                 scriptStatuses, mapWriters, crashed, limiter, content,
                 result, err, snap, resp, spin, reads, firstCached,
                 bucketsMade, grantedNow, lstates, mtx, rw>>

\* Time passes.
Tick ==
  /\ ~crashed
  /\ now < MaxTime
  /\ now' = now + 1
  /\ grantedNow' = [c \in Clients |-> 0]
  /\ UNCHANGED <<disk, writes, visitors, limiters, scriptCache,
                 scriptStatuses, mapWriters, crashed, req, pc, limiter,
                 content, result, err, snap, resp, spin, reads, firstCached,
                 bucketsMade, lstates, mtx, rw>>

\* Somebody changes, creates or removes one of the script files N.
WriteFile(N) ==
  /\ ~crashed
  /\ writes < MaxWrites
  /\ \E n \in N :
       \E c \in (Contents \cup {NoContent}) \ {disk[n]} :
         disk' = [disk EXCEPT ![n] = c]
  /\ writes' = writes + 1
  /\ UNCHANGED <<now, visitors, limiters, scriptCache, scriptStatuses,
                 mapWriters, crashed, req, pc, limiter, content, result, err,
                 snap, resp, spin, reads, firstCached, bucketsMade,
                 grantedNow, lstates, mtx, rw>>

\* ------------------------------------------------- rate limiter middleware
\* getVisitor: the read of visitors[ip] and mtx.Unlock(), by a task that has
\* locked mtx or that locks it in this step.
GetVisitor(t) ==
  /\ ~crashed
  /\ pc[t] = "getVisitor"
  /\ mtx \in {NoTask, t}
  /\ mtx' = NoTask
  /\ IF visitors[req[t].ip] # NoLimiter
     THEN /\ limiter' = [limiter EXCEPT ![t] = visitors[req[t].ip]]
          /\ pc' = [pc EXCEPT ![t] = "allow"]
     ELSE /\ pc' = [pc EXCEPT ![t] = "addVisitor"]
          /\ UNCHANGED limiter
  /\ UNCHANGED <<now, disk, writes, visitors, limiters, scriptCache,
                 scriptStatuses, mapWriters, crashed, req, content, result,
                 err, snap, resp, spin, reads, firstCached, bucketsMade,
                 grantedNow, lstates, rw>>

\* addVisitor: a new limiter, stored, and mtx.Unlock(), by a task that has
\* locked mtx or that locks it in this step.
AddVisitor(t) ==
  /\ ~crashed
  /\ pc[t] = "addVisitor"
  /\ mtx \in {NoTask, t}
  /\ mtx' = NoTask
  /\ limiters' = [limiters EXCEPT ![t] = NewLimiter]
  /\ visitors' = [visitors EXCEPT ![req[t].ip] = t]
  /\ limiter' = [limiter EXCEPT ![t] = t]
  /\ bucketsMade' = [bucketsMade EXCEPT ![req[t].ip] = @ + 1]
  /\ pc' = [pc EXCEPT ![t] = "allow"]
  /\ UNCHANGED <<now, disk, writes, scriptCache, scriptStatuses, mapWriters,
                 crashed, req, content, result, err, snap, resp, spin, reads,
                 firstCached, grantedNow, lstates, rw>>

\* limiter.Allow(), then 429 or c.Next(); the middleware is done with the
\* client's address.  A POST handler first checks the name and binds the
\* body, and answers 400 when one of them fails.
Allow(t) ==
  /\ ~crashed
  /\ pc[t] = "allow"
  /\ limiters' = [limiters EXCEPT ![limiter[t]] = AfterAllow(@, now)]
  /\ limiter' = [limiter EXCEPT ![t] = NoLimiter]
  /\ req' = [req EXCEPT ![t].ip = ""]
  /\ IF AllowOk(limiters[limiter[t]], now)
     THEN /\ grantedNow' = [grantedNow EXCEPT ![req[t].ip] = @ + 1]
          /\ IF req[t].kind # "poll" /\ Validate(req[t]) # ""
             THEN /\ pc' = [pc EXCEPT ![t] = "done"]
                  /\ resp' = [resp EXCEPT ![t] =
                                [NoResp EXCEPT !.code = 400,
                                               !.body = Validate(req[t])]]
             ELSE /\ pc' = [pc EXCEPT ![t] = HandlerEntry(req[t].kind)]
                  /\ UNCHANGED resp
     ELSE /\ pc' = [pc EXCEPT ![t] = "done"]
          /\ resp' = [resp EXCEPT ![t] = [NoResp EXCEPT !.code = 429]]
          /\ UNCHANGED grantedNow
  /\ UNCHANGED <<now, disk, writes, visitors, scriptCache, scriptStatuses,
                 mapWriters, crashed, content, result, err, snap, spin, lstates,
                 mtx, rw, reads, firstCached, bucketsMade>>

\* ------------------------------------------------------ GET /status/:id
\* status, ok := scriptStatuses[id]: an unlocked map read.
PollLookup(t) ==
  /\ ~crashed
  /\ pc[t] = "p_lookup"
  /\ \/ /\ Lookup(req[t].id).exists
        /\ pc' = [pc EXCEPT ![t] = "p_finished"]
        /\ UNCHANGED <<now, disk, writes, visitors, limiters, scriptCache,
                       scriptStatuses, mapWriters, crashed, req, limiter,
                       content, result, err, snap, resp, spin, reads,
                       firstCached, bucketsMade, grantedNow, lstates, mtx,
                       rw>>
     \/ /\ ~Lookup(req[t].id).exists \/ RacingRead(t)
        /\ pc' = [pc EXCEPT ![t] = "done"]
        /\ resp' = [resp EXCEPT ![t] = [NoResp EXCEPT !.code = 404]]
        /\ UNCHANGED <<now, disk, writes, visitors, limiters, scriptCache,
                       scriptStatuses, mapWriters, crashed, req, limiter,
                       content, result, err, snap, spin, reads, firstCached,
                       bucketsMade, grantedNow, lstates, mtx, rw>>
     \/ /\ RacingRead(t)
        /\ Crash

\* if status.Finished: an unlocked read of the job's record.
PollReadFinished(t) ==
  /\ ~crashed
  /\ pc[t] = "p_finished"
  /\ IF scriptStatuses[req[t].id].Finished
     THEN /\ snap' = [snap EXCEPT ![t].Finished = TRUE]
          /\ pc' = [pc EXCEPT ![t] = "p_result"]
          /\ UNCHANGED resp
     ELSE /\ resp' = [resp EXCEPT ![t] = [NoResp EXCEPT !.code = 200]]
          /\ pc' = [pc EXCEPT ![t] = "done"]
          /\ UNCHANGED snap
  /\ UNCHANGED <<now, disk, writes, visitors, limiters, scriptCache,
                 scriptStatuses, mapWriters, crashed, req, limiter, content,
                 result, err, spin, reads, firstCached, bucketsMade,
                 grantedNow, lstates, mtx, rw>>

\* "result": status.Result
PollReadResult(t) ==
  /\ ~crashed
  /\ pc[t] = "p_result"
  /\ snap' = [snap EXCEPT ![t].Result = scriptStatuses[req[t].id].Result]
  /\ pc' = [pc EXCEPT ![t] = "p_error"]
  /\ UNCHANGED <<now, disk, writes, visitors, limiters, scriptCache,
                 scriptStatuses, mapWriters, crashed, req, limiter, content,
                 result, err, resp, spin, reads, firstCached, bucketsMade,
                 grantedNow, lstates, mtx, rw>>

\* "error": status.Error, and the answer is sent.
PollReadError(t) ==
  /\ ~crashed
  /\ pc[t] = "p_error"
  /\ resp' = [resp EXCEPT ![t] =
                [NoResp EXCEPT !.code = 200, !.finished = TRUE,
                               !.result = snap[t].Result,
                               !.error = scriptStatuses[req[t].id].Error]]
  /\ snap' = [snap EXCEPT ![t] = NoSnap]
  /\ pc' = [pc EXCEPT ![t] = "done"]
  /\ UNCHANGED <<now, disk, writes, visitors, limiters, scriptCache,
                 scriptStatuses, mapWriters, crashed, req, limiter, content,
                 result, err, spin, reads, firstCached, bucketsMade,
                 grantedNow, lstates, mtx, rw>>

\* ----------------------------------------- POST /runLuaFileAsync/:filename
\* scriptStatuses[id] = ...: the unlocked map write begins.  The id is the
\* task's own number (uuid.New() never repeats).
AsyncAssign(t) ==
  /\ ~crashed
  /\ pc[t] = "a_assign"
  /\ \/ /\ mapWriters' = mapWriters \cup {t}
        /\ pc' = [pc EXCEPT ![t] = "a_store"]
        /\ UNCHANGED <<now, disk, writes, visitors, limiters, scriptCache,
                       scriptStatuses, crashed, req, limiter, content, result,
                       err, snap, resp, spin, reads, firstCached, bucketsMade,
                       grantedNow, lstates, mtx, rw>>
     \/ /\ mapWriters # {}
        /\ Crash

\* The map write ends (the runtime may find that another write overlapped
\* it), the background goroutine is started and the id is sent to the client.
AsyncStore(t) ==
  /\ ~crashed
  /\ pc[t] = "a_store"
  /\ \/ /\ scriptStatuses' = [scriptStatuses EXCEPT ![t] = NewStatus]
        /\ mapWriters' = mapWriters \ {t}
        /\ resp' = [resp EXCEPT ![t] = [NoResp EXCEPT !.code = 200, !.id = t]]
        /\ pc' = [pc EXCEPT ![t] = "r_lookup"]
        /\ UNCHANGED <<now, disk, writes, visitors, limiters, scriptCache,
                       crashed, req, limiter, content, result, err, snap,
                       spin, reads, firstCached, bucketsMade, grantedNow,
                       lstates, mtx, rw>>
     \/ /\ mapWriters \ {t} # {}
        /\ Crash

\* ------------------------------------------------------------ runLuaScript
\* The handler's answer to a synchronous run: 400 with the error, or 200
\* with the result.
SyncResponse(res, e) ==
  IF e # NoErr
  THEN [NoResp EXCEPT !.code = 400, !.body = e]
  ELSE [NoResp EXCEPT !.code = 200, !.body = res]

\* runLuaScript has returned (res, e) to its caller: the synchronous handler
\* answers; the background goroutine goes on to update the job's status.
Returned(t, res, e) ==
  /\ content' = [content EXCEPT ![t] = NoContent]
  /\ req' = [req EXCEPT ![t].name = "",
                        ![t].payload = IF req[t].kind = "sync" THEN "" ELSE @]
  /\ IF req[t].kind = "sync"
     THEN /\ resp' = [resp EXCEPT ![t] = SyncResponse(res, e)]
          /\ pc' = [pc EXCEPT ![t] = "done"]
          /\ UNCHANGED <<result, err>>
     ELSE /\ result' = [result EXCEPT ![t] = res]
          /\ err' = [err EXCEPT ![t] = e]
          /\ pc' = [pc EXCEPT ![t] = "c_finished"]
          /\ UNCHANGED resp

\* content, ok := scriptCache[filename] and RUnlock(), by a task that has
\* read-locked scriptCacheMutex or that does so in this step.
RunCacheLookup(t) ==
  /\ ~crashed
  /\ pc[t] = "r_lookup"
  /\ rw.writer = NoTask
  /\ rw' = RUnlock(rw, t)
  /\ IF scriptCache[req[t].name] # NoContent
     THEN /\ content' = [content EXCEPT ![t] = scriptCache[req[t].name]]
          /\ pc' = [pc EXCEPT ![t] = "r_eval"]
     ELSE /\ pc' = [pc EXCEPT ![t] = "r_read"]
          /\ UNCHANGED content
  /\ UNCHANGED <<now, disk, writes, visitors, limiters, scriptCache,
                 scriptStatuses, mapWriters, crashed, req, limiter, result,
                 err, snap, resp, spin, reads, firstCached, bucketsMade,
                 grantedNow, lstates, mtx>>

\* ioutil.ReadFile(filename), outside any lock; an absent file, or a name
\* that is a directory, ends the run.
RunReadFile(t) ==
  /\ ~crashed
  /\ pc[t] = "r_read"
  /\ reads' = [reads EXCEPT ![req[t].name] = @ + 1]
  /\ IF ReadFile(disk, req[t].name) \in {NoContent, IsDir}
     THEN Returned(t, "", IF ReadFile(disk, req[t].name) = IsDir
                          THEN "EISDIR" ELSE "ENOENT")
     ELSE /\ content' = [content EXCEPT ![t] = ReadFile(disk, req[t].name)]
          /\ pc' = [pc EXCEPT ![t] = "r_store"]
          /\ UNCHANGED <<req, result, err, resp>>
  /\ UNCHANGED <<now, disk, writes, visitors, limiters, scriptCache,
                 scriptStatuses, mapWriters, crashed, limiter, snap, spin,
                 firstCached, bucketsMade, grantedNow, lstates, mtx, rw>>

\* scriptCache[filename] = content and Unlock(), by a task that has locked
\* scriptCacheMutex or that locks it in this step.
RunCacheStore(t) ==
  /\ ~crashed
  /\ pc[t] = "r_store"
  /\ rw.writer \in {NoTask, t} /\ rw.readers = {}
  /\ rw' = [rw EXCEPT !.writer = NoTask]
  /\ scriptCache' = [scriptCache EXCEPT ![req[t].name] = content[t]]
  /\ firstCached' = [firstCached EXCEPT ![req[t].name] =
                       IF @ = NoContent THEN content[t] ELSE @]
  /\ pc' = [pc EXCEPT ![t] = "r_eval"]
  /\ UNCHANGED <<now, disk, writes, visitors, limiters, scriptStatuses,
                 mapWriters, crashed, req, limiter, content, result, err,
                 snap, resp, spin, reads, bucketsMade, grantedNow, lstates,
                 mtx>>

\* A closed interpreter, and the one runLuaScript has set up for a run when
\* the script of content c reaches its host call.
ClosedLState == [NoLState EXCEPT !.state = "closed"]
OpenLState(c, p) ==
  [state |-> "open", payload |-> p,
   headers |-> SetHeaders(NoHeaders, HeaderWrites(c))]

\* lua.NewState() ... mapToTable ... L.DoString(content) ... L.Close(): the
\* script runs in an interpreter of its own, up to its return or up to its
\* outbound call.  mapToTable panics on a payload value that is no string:
\* gin's Recovery answers 500 for a handler, and nothing recovers the panic
\* of a background goroutine.
RunEval(t) ==
  /\ ~crashed
  /\ pc[t] = "r_eval"
  /\ content[t] # "spin" \/ ~AllStrings(req[t].payload)
  /\ \/ /\ AllStrings(req[t].payload)
        /\ HostCall(content[t]) = "none"
        /\ lstates' = [lstates EXCEPT ![LStateOf(t)] = ClosedLState]
        /\ Returned(t, RunReturn(content[t], req[t].payload).result,
                       RunReturn(content[t], req[t].payload).err)
        /\ UNCHANGED <<now, disk, writes, visitors, limiters, scriptCache,
                       scriptStatuses, mapWriters, crashed, limiter, snap, spin,
                       mtx, rw, reads, firstCached, bucketsMade, grantedNow>>
     \/ /\ AllStrings(req[t].payload)
        /\ HostCall(content[t]) # "none"
        /\ lstates' = [lstates EXCEPT ![LStateOf(t)] =
                         OpenLState(content[t], req[t].payload)]
        /\ pc' = [pc EXCEPT ![t] = "r_http"]
        /\ UNCHANGED <<now, disk, writes, visitors, limiters, scriptCache,
                       scriptStatuses, mapWriters, crashed, req, limiter,
                       content, result, err, snap, resp, spin, mtx, rw, reads,
                       firstCached, bucketsMade, grantedNow>>
     \/ /\ ~AllStrings(req[t].payload)
        /\ req[t].kind = "sync"
        /\ lstates' = [lstates EXCEPT ![LStateOf(t)] = ClosedLState]
        /\ content' = [content EXCEPT ![t] = NoContent]
        /\ req' = [req EXCEPT ![t].name = "", ![t].payload = ""]
        /\ resp' = [resp EXCEPT ![t] = [NoResp EXCEPT !.code = 500]]
        /\ pc' = [pc EXCEPT ![t] = "done"]
        /\ UNCHANGED <<now, disk, writes, visitors, limiters, scriptCache,
                       scriptStatuses, mapWriters, crashed, limiter, result,
                       err, snap, spin, mtx, rw, reads, firstCached,
                       bucketsMade, grantedNow>>
     \/ /\ ~AllStrings(req[t].payload)
        /\ req[t].kind = "async"
        /\ Crash

\* client.Do(req) of httpGet or httpPost ends, with a response or with an
\* error: the host function hands the script a body, or nil and an error
\* text; the script goes on to its return, which reads the payload global
\* of its interpreter, and the interpreter is closed.
RunHostReturn(t) ==
  /\ ~crashed
  /\ pc[t] = "r_http"
  /\ \E reached \in BOOLEAN :
       Returned(t, ScriptValue(content[t], lstates[LStateOf(t)].payload), NoErr)
  /\ lstates' = [lstates EXCEPT ![LStateOf(t)] = ClosedLState]
  /\ UNCHANGED <<now, disk, writes, visitors, limiters, scriptCache,
                 scriptStatuses, mapWriters, crashed, limiter, snap, spin, mtx,
                 rw, reads, firstCached, bucketsMade, grantedNow>>

\* L.DoString(content) of a script that loops: one more turn of the loop.
\* Nothing bounds the call.
RunEvalLoop(t) ==
  /\ ~crashed
  /\ pc[t] = "r_eval"
  /\ content[t] = "spin"
  /\ AllStrings(req[t].payload)
  /\ spin' = [spin EXCEPT ![t] = 1 - @]
  /\ UNCHANGED <<now, disk, writes, visitors, limiters, scriptCache,
                 scriptStatuses, mapWriters, crashed, req, pc, limiter,
                 content, result, err, snap, resp, reads, firstCached,
                 bucketsMade, grantedNow, lstates, mtx, rw>>

\* ------------------------------------ the background goroutine's updates
\* scriptStatuses[id] in the goroutine: an unlocked map read, then a write
\* through the pointer it returned.  A read that overlaps a map write can
\* end in the runtime's fatal error; a missing entry is a nil dereference.
StatusReadFails(t) ==
  RacingRead(t) \/ ~scriptStatuses[StatusTarget(t)].exists

\* scriptStatuses[id].Finished = true
CompleteFinished(t) ==
  /\ ~crashed
  /\ pc[t] = "c_finished"
  /\ \/ /\ scriptStatuses[StatusTarget(t)].exists
        /\ scriptStatuses' =
             [scriptStatuses EXCEPT ![StatusTarget(t)].Finished = TRUE]
        /\ pc' = [pc EXCEPT ![t] = "c_result"]
        /\ UNCHANGED <<now, disk, writes, visitors, limiters, scriptCache,
                       mapWriters, crashed, req, limiter, content, result,
                       err, snap, resp, spin, reads, firstCached, bucketsMade,
                       grantedNow, lstates, mtx, rw>>
     \/ /\ StatusReadFails(t)
        /\ Crash

\* scriptStatuses[id].Result = result
CompleteResult(t) ==
  /\ ~crashed
  /\ pc[t] = "c_result"
  /\ \/ /\ scriptStatuses[StatusTarget(t)].exists
        /\ scriptStatuses' =
             [scriptStatuses EXCEPT ![StatusTarget(t)].Result = result[t]]
        /\ pc' = [pc EXCEPT ![t] = IF err[t] # NoErr THEN "c_error" ELSE "done"]
        /\ UNCHANGED <<now, disk, writes, visitors, limiters, scriptCache,
                       mapWriters, crashed, req, limiter, content, result,
                       err, snap, resp, spin, reads, firstCached, bucketsMade,
                       grantedNow, lstates, mtx, rw>>
     \/ /\ StatusReadFails(t)
        /\ Crash

\* if err != nil { scriptStatuses[id].Error = err }
CompleteError(t) ==
  /\ ~crashed
  /\ pc[t] = "c_error"
  /\ \/ /\ scriptStatuses[StatusTarget(t)].exists
        /\ scriptStatuses' =
             [scriptStatuses EXCEPT ![StatusTarget(t)].Error = err[t]]
        /\ pc' = [pc EXCEPT ![t] = "done"]
        /\ UNCHANGED <<now, disk, writes, visitors, limiters, scriptCache,
                       mapWriters, crashed, req, limiter, content, result,
                       err, snap, resp, spin, reads, firstCached, bucketsMade,
                       grantedNow, lstates, mtx, rw>>
     \/ /\ StatusReadFails(t)
        /\ Crash

\* ------------------------------------------------- the locks, step by step
\* mtx.Lock() of getVisitor or of addVisitor: waits until mtx is free.
MtxLock(t) ==
  /\ ~crashed
  /\ pc[t] \in {"getVisitor", "addVisitor"}
  /\ mtx = NoTask
  /\ mtx' = t
  /\ UNCHANGED <<now, disk, writes, visitors, limiters, scriptCache,
                 scriptStatuses, mapWriters, crashed, req, pc, limiter,
                 content, result, err, snap, resp, spin, lstates, rw, reads,
                 firstCached, bucketsMade, grantedNow>>

\* scriptCacheMutex.RLock(): waits while a writer holds the lock.
CacheRLock(t) ==
  /\ ~crashed
  /\ pc[t] = "r_lookup"
  /\ rw.writer = NoTask
  /\ t \notin rw.readers
  /\ rw' = [rw EXCEPT !.readers = @ \cup {t}]
  /\ UNCHANGED <<now, disk, writes, visitors, limiters, scriptCache,
                 scriptStatuses, mapWriters, crashed, req, pc, limiter,
                 content, result, err, snap, resp, spin, lstates, mtx, reads,
                 firstCached, bucketsMade, grantedNow>>

\* scriptCacheMutex.Lock(): waits until no reader and no writer holds it.
CacheLock(t) ==
  /\ ~crashed
  /\ pc[t] = "r_store"
  /\ rw = RWFree
  /\ rw' = [rw EXCEPT !.writer = t]
  /\ UNCHANGED <<now, disk, writes, visitors, limiters, scriptCache,
                 scriptStatuses, mapWriters, crashed, req, pc, limiter,
                 content, result, err, snap, resp, spin, lstates, mtx, reads,
                 firstCached, bucketsMade, grantedNow>>

\* The map operation and the unlock of a task that holds the lock.
GetVisitorLocked(t) == mtx = t /\ GetVisitor(t)
AddVisitorLocked(t) == mtx = t /\ AddVisitor(t)
CacheLookupLocked(t) == t \in rw.readers /\ RunCacheLookup(t)
CacheStoreLocked(t) == rw.writer = t /\ RunCacheStore(t)

\* ------------------------------------------------------------------- Next
\* The rate limiter middleware of a request.
Middleware(t) ==
  \/ GetVisitor(t)
  \/ AddVisitor(t)
  \/ Allow(t)

\* The handlers and the background goroutine of a request.
Handler(t) ==
  \/ PollLookup(t)
  \/ PollReadFinished(t)
  \/ PollReadResult(t)
  \/ PollReadError(t)
  \/ AsyncAssign(t)
  \/ AsyncStore(t)
  \/ RunCacheLookup(t)
  \/ RunReadFile(t)
  \/ RunCacheStore(t)
  \/ RunEval(t)
  \/ RunEvalLoop(t)
  \/ CompleteFinished(t)
  \/ CompleteResult(t)
  \/ CompleteError(t)

\* The job tracker: asynchronous runs and polls of the ids they returned, all
\* within one instant, the script files left alone.
\* (Only ok.lua looks at its payload, so the other scripts get one payload.)
JobRequests ==
  RunRequests({"async"}, {"ip1"}, {"ok.lua"}, Payloads)
    \cup RunRequests({"async"}, {"ip1"}, Names \ {"ok.lua"}, {"p"})
    \cup PollRequests({"ip1"}, ReturnedIds)

Next ==
  \/ \E t \in Tasks : Arrive(t, JobRequests, NJobTasks)
  \/ \E t \in Tasks : Middleware(t)
  \/ \E t \in Tasks : Handler(t)

Spec == Init /\ [][Next]_vars

\* The job tracker under one more request.
RaceNext ==
  \/ \E t \in Tasks : Arrive(t, JobRequests, NRaceTasks)
  \/ \E t \in Tasks : Middleware(t)
  \/ \E t \in Tasks : Handler(t)

RaceSpec == Init /\ [][RaceNext]_vars

\* The script cache: synchronous runs of two names while the files change.
CacheNames == {"ok.lua", "gone.lua"}

CacheRequests == RunRequests({"sync"}, {"ip1"}, CacheNames, {"p"})

CacheNext ==
  \/ WriteFile(CacheNames)
  \/ \E t \in Tasks : Arrive(t, CacheRequests, NRaceTasks)
  \/ \E t \in Tasks : Middleware(t)
  \/ \E t \in Tasks : RunCacheLookup(t)
  \/ \E t \in Tasks : RunReadFile(t)
  \/ \E t \in Tasks : RunCacheStore(t)
  \/ \E t \in Tasks : RunEval(t)
  \/ \E t \in Tasks : RunEvalLoop(t)

CacheSpec == Init /\ [][CacheNext]_vars

\* The rate limiter over time, under requests whose handler touches nothing
\* else (polls of ids that were never issued).
AdmitNext ==
  \/ Tick
  \/ \E t \in Tasks : Arrive(t, PollRequests(Clients, {UnknownId}), NTasks)
  \/ \E t \in Tasks : Middleware(t)
  \/ \E t \in Tasks : PollLookup(t)

AdmitSpec == Init /\ [][AdmitNext]_vars

\* One client sending one asynchronous run after the other, every goroutine
\* scheduled again and again (Go's scheduler preempts a running goroutine).
FairNext ==
  \/ \E t \in Tasks :
       /\ InFlight = {}
       /\ Arrive(t, RunRequests({"async"}, {"ip1"}, Names, {"p"}), NRaceTasks)
  \/ \E t \in Tasks : Middleware(t)
  \/ \E t \in Tasks : AsyncAssign(t)
  \/ \E t \in Tasks : AsyncStore(t)
  \/ \E t \in Tasks : RunCacheLookup(t)
  \/ \E t \in Tasks : RunReadFile(t)
  \/ \E t \in Tasks : RunCacheStore(t)
  \/ \E t \in Tasks : RunEval(t)
  \/ \E t \in Tasks : RunEvalLoop(t)
  \/ \E t \in Tasks : CompleteFinished(t)
  \/ \E t \in Tasks : CompleteResult(t)
  \/ \E t \in Tasks : CompleteError(t)

FairSpec ==
  /\ Init
  /\ [][FairNext]_vars
  /\ \A t \in Tasks : WF_vars(Middleware(t) \/ Handler(t))

\* The two POST entries under names and bodies of every kind: a script, the
\* parent directory, a path with a separator; an object of strings, an object
\* holding a number, text that is no JSON.
EntryRequests ==
  RunRequests({"sync", "async"}, {"ip1"}, {"ok.lua"} \cup OddNames,
              {"p"} \cup OddPayloads)

EntryNext ==
  \/ \E t \in Tasks : Arrive(t, EntryRequests, NRaceTasks)
  \/ \E t \in Tasks : Middleware(t)
  \/ \E t \in Tasks : AsyncAssign(t)
  \/ \E t \in Tasks : AsyncStore(t)
  \/ \E t \in Tasks : RunCacheLookup(t)
  \/ \E t \in Tasks : RunReadFile(t)
  \/ \E t \in Tasks : RunCacheStore(t)
  \/ \E t \in Tasks : RunEval(t)
  \/ \E t \in Tasks : CompleteFinished(t)
  \/ \E t \in Tasks : CompleteResult(t)
  \/ \E t \in Tasks : CompleteError(t)

EntrySpec == Init /\ [][EntryNext]_vars

\* Synchronous runs of the scripts that call host functions or end without
\* a return.  (Only hdr.lua and post0.lua get to read their payload.)
HostRequests ==
  RunRequests({"sync"}, {"ip1"}, {"hdr.lua", "post0.lua"}, Payloads)
    \cup RunRequests({"sync"}, {"ip1"}, {"noret.lua", "post.lua"}, {"p"})

HostNext ==
  \/ \E t \in Tasks : Arrive(t, HostRequests, NJobTasks)
  \/ \E t \in Tasks : Middleware(t)
  \/ \E t \in Tasks : RunCacheLookup(t)
  \/ \E t \in Tasks : RunReadFile(t)
  \/ \E t \in Tasks : RunCacheStore(t)
  \/ \E t \in Tasks : RunEval(t)
  \/ \E t \in Tasks : RunHostReturn(t)

HostSpec == Init /\ [][HostNext]_vars

\* The locks step by step: synchronous runs of a script that calls httpGet
\* and of a missing file.  A goroutine that can take a step is scheduled
\* again and again; one that waits for a lock can take no step.
LockRequests == RunRequests({"sync"}, {"ip1"}, {"hdr.lua", "gone.lua"}, {"p"})

LockStep(t) ==
  \/ MtxLock(t)
  \/ GetVisitorLocked(t)
  \/ AddVisitorLocked(t)
  \/ Allow(t)
  \/ CacheRLock(t)
  \/ CacheLookupLocked(t)
  \/ RunReadFile(t)
  \/ CacheLock(t)
  \/ CacheStoreLocked(t)
  \/ RunEval(t)
  \/ RunHostReturn(t)

LockNext ==
  \/ \E t \in Tasks : Arrive(t, LockRequests, NJobTasks)
  \/ \E t \in Tasks : LockStep(t)

LockSpec ==
  /\ Init
  /\ [][LockNext]_vars
  /\ \A t \in Tasks : WF_vars(LockStep(t))

\* Every entry behind the limiter: one client's asynchronous runs and polls
\* of the ids they returned, within one instant.
GateRequests ==
  RunRequests({"async"}, {"ip1"}, {"gone.lua"}, {"p"})
    \cup PollRequests({"ip1"}, ReturnedIds)

GateNext ==
  \/ \E t \in Tasks : Arrive(t, GateRequests, NTasks)
  \/ \E t \in Tasks : Middleware(t)
  \/ \E t \in Tasks : PollLookup(t)
  \/ \E t \in Tasks : PollReadFinished(t)
  \/ \E t \in Tasks : PollReadResult(t)
  \/ \E t \in Tasks : PollReadError(t)
  \/ \E t \in Tasks : AsyncAssign(t)
  \/ \E t \in Tasks : AsyncStore(t)
  \/ \E t \in Tasks : RunCacheLookup(t)
  \/ \E t \in Tasks : RunReadFile(t)
  \/ \E t \in Tasks : CompleteFinished(t)
  \/ \E t \in Tasks : CompleteResult(t)
  \/ \E t \in Tasks : CompleteError(t)

GateSpec == Init /\ [][GateNext]_vars

\* Loads of a name whose file is absent at start, while the file appears,
\* changes and disappears.
LoadRequests == RunRequests({"sync"}, {"ip1"}, {"gone.lua"}, {"p"})

LoadNext ==
  \/ WriteFile({"gone.lua"})
  \/ \E t \in Tasks : Arrive(t, LoadRequests, NJobTasks)
  \/ \E t \in Tasks : Middleware(t)
  \/ \E t \in Tasks : RunCacheLookup(t)
  \/ \E t \in Tasks : RunReadFile(t)
  \/ \E t \in Tasks : RunCacheStore(t)
  \/ \E t \in Tasks : RunEval(t)
  \/ \E t \in Tasks : RunEvalLoop(t)

LoadSpec == Init /\ [][LoadNext]_vars

\* ----------------------------------------------------------------- claims
\* The polls that were answered, and the job each asked for.
AnsweredPolls ==
  {p \in Tasks : req[p].kind = "poll" /\ pc[p] = "done" /\ resp[p].code # 429}

\* The asynchronous requests whose background goroutine has ended.
EndedJobs ==
  {t \in Tasks : req[t].kind = "async" /\ pc[t] = "done" /\ resp[t].code = 200}

\* A step of task t's background goroutine that updates the job's status.
CompleteStep(t) ==
  /\ pc[t] \in {"c_finished", "c_result", "c_error"}
  /\ pc'[t] # pc[t]

\* C1: every job id the asynchronous entry handed back is recorded in the job
\* map: a poll of a returned id is never answered 404, and it is answered
\* finished=true only when the job's goroutine has marked it finished.
C1_ReturnedIdIsPollable ==
  /\ \A j \in ReturnedIds : scriptStatuses[j].exists
  /\ \A p \in AnsweredPolls :
       req[p].id \in ReturnedIds =>
         /\ resp[p].code = 200
         /\ resp[p].finished => scriptStatuses[req[p].id].Finished

\* C2: a poll that reports finished=true reports exactly the result and the
\* error runLuaScript returned for that job.
C2_PollSnapshotIsFinal ==
  \A p \in AnsweredPolls :
    (resp[p].code = 200 /\ resp[p].finished) =>
      /\ resp[p].result = result[req[p].id]
      /\ resp[p].error = err[req[p].id]

\* C3: while the process runs, a job's record is created pending, is never
\* deleted, never goes back from finished to pending, and is changed only by
\* the status updates of the job's own goroutine, which mark it finished
\* once, in their first step; the updates of one job leave every other job's
\* record as it is.
C3_JobCompletedOnceByItsTask ==
  [][\A j \in Tasks :
     ~crashed' =>
       /\ (~scriptStatuses[j].exists /\ scriptStatuses'[j].exists)
            => scriptStatuses'[j] =
                 [exists |-> TRUE, Finished |-> FALSE, Result |-> "",
                  Error |-> NoErr]
       /\ scriptStatuses[j].exists => scriptStatuses'[j].exists
       /\ scriptStatuses[j].Finished => scriptStatuses'[j].Finished
       /\ (scriptStatuses[j].exists /\ scriptStatuses'[j] # scriptStatuses[j])
            => CompleteStep(j)
       /\ (~scriptStatuses[j].Finished /\ scriptStatuses'[j].Finished)
            => pc[j] = "c_finished"
       /\ CompleteStep(j) =>
            \A k \in Tasks \ {j} : scriptStatuses'[k] = scriptStatuses[k]
    ]_vars

\* C3's case: one job finished with its result while another is pending.
C3_Witness ==
  \E j, k \in Tasks :
    /\ j # k
    /\ pc[j] = "done" /\ scriptStatuses[j].Finished
    /\ scriptStatuses[j].Result # ""
    /\ scriptStatuses[k].exists /\ ~scriptStatuses[k].Finished
    /\ pc[k] = "c_finished"

\* C4: every job the asynchronous entry accepted is eventually finished.
C4_EveryJobFinishes ==
  \A t \in Tasks :
    (req[t].kind = "async" /\ resp[t].code = 200) ~> scriptStatuses[t].Finished

\* C5: a job whose run failed ends finished with the run's error and an
\* empty result, and a job whose run succeeded ends finished with the value
\* its own script returned for its own payload and no error, whatever the
\* other jobs did.
C5_FailureRecordedOnItsJobOnly ==
  \A t \in EndedJobs :
    /\ err[t] # NoErr =>
         scriptStatuses[t] =
           [exists |-> TRUE, Finished |-> TRUE, Result |-> "", Error |-> err[t]]
    /\ err[t] = NoErr =>
         scriptStatuses[t] =
           [exists |-> TRUE, Finished |-> TRUE,
            Result |-> ScriptValue("ok", req[t].payload), Error |-> NoErr]

\* C5's case: a job that failed and a job that succeeded, both ended.
C5_Witness ==
  \E t, v \in EndedJobs :
    /\ err[t] # NoErr
    /\ err[v] = NoErr /\ scriptStatuses[v].Result = "Hello, q!"

\* C6: the tokens of every limiter, as stored and as available now, are
\* between 0 and the burst.
C6_TokensWithinCapacity ==
  \A l \in Tasks :
    /\ limiters[l].tokens \in 0..(Burst * TicksPerSec)
    /\ Advance(limiters[l], now) \in 0..(Burst * TicksPerSec)

\* C6's case: a client's bucket was drained, a request of that client was
\* denied, and time has refilled part of a token since.
C6_Witness ==
  /\ \E t \in Tasks : resp[t].code = 429
  /\ \E c \in Clients :
       /\ visitors[c] # NoLimiter
       /\ limiters[visitors[c]].tokens = 0
       /\ Advance(limiters[visitors[c]], now) > 0

\* C7: a request is admitted exactly when its client's bucket holds a token,
\* an admitted request takes one token and a denied one none, a new bucket
\* admits, a bucket left alone for a second admits, and no client has more
\* than three requests admitted at one instant.
C7_TokenBucketRule ==
  [][\A t \in Tasks :
       (pc[t] = "allow" /\ pc'[t] # "allow") =>
         /\ (pc'[t] # "done") <=> (Advance(limiters[limiter[t]], now) >= TicksPerSec)
         /\ limiters'[limiter[t]].tokens =
              IF pc'[t] # "done"
              THEN Advance(limiters[limiter[t]], now) - TicksPerSec
              ELSE limiters[limiter[t]].tokens
         /\ limiters[limiter[t]] = NewLimiter => pc'[t] # "done"
         /\ now - limiters[limiter[t]].last >= TicksPerSec => pc'[t] # "done"
         /\ grantedNow'[req[t].ip] <= Burst
    ]_vars

\* C8: at most one bucket is ever made for a client, every request of the
\* client draws on the bucket the map holds, and at most three requests of a
\* client are admitted at one instant.
C8_OneBucketPerClient ==
  \A c \in Clients :
    /\ bucketsMade[c] <= 1
    /\ grantedNow[c] <= Burst
    /\ \A t \in Tasks :
         (pc[t] = "allow" /\ req[t].ip = c) => limiter[t] = visitors[c]

\* C9: once a load of a name has completed, a later load of the name returns
\* the content of that load without reading the disk.
C9_LaterLoadReturnsSameContent ==
  [][\A t \in Tasks :
       (pc[t] = "r_lookup" /\ pc'[t] # "r_lookup"
          /\ firstCached[req[t].name] # NoContent) =>
         /\ pc'[t] = "r_eval"
         /\ content'[t] = firstCached[req[t].name]
         /\ reads' = reads
    ]_vars

\* C10: the disk is not read for a name that is cached, a cache entry never
\* changes, and every run of a name evaluates the content first cached for it.
C10_OneImmutableContentPerName ==
  [][\A n \in Names :
       /\ reads'[n] # reads[n] => firstCached[n] = NoContent
       /\ scriptCache[n] # NoContent => scriptCache'[n] = scriptCache[n]
       /\ \A t \in Tasks :
            (pc'[t] = "r_eval" /\ req'[t].name = n) => content'[t] = firstCached'[n]
    ]_vars

\* A name that holds a path separator or a traversal sequence; a body that
\* is no JSON.
UnsafeName(n) == n \in {"..", "a/b.lua"}
BadBody(p) == p = "notjson"

\* C11: a request that admission denied, or whose name holds a separator or
\* a traversal sequence, or whose body is no JSON, never gets past the head
\* of its handler: it is answered 429 or 400, no job is recorded for it, no
\* interpreter is made for it, and its name is neither read from disk nor
\* put into the cache.
C11_RejectedBeforeExecution ==
  \A t \in Tasks :
    /\ (pc[t] = "done" /\ resp[t].code = 429) =>
         (~scriptStatuses[t].exists /\ lstates[t].state = "none")
    /\ (req[t].kind \in {"sync", "async"}
          /\ (UnsafeName(req[t].name) \/ BadBody(req[t].payload))) =>
         /\ pc[t] \in {"getVisitor", "addVisitor", "allow", "done"}
         /\ pc[t] = "done" => resp[t].code \in {400, 429}
         /\ ~scriptStatuses[t].exists
         /\ lstates[t].state = "none"
         /\ reads[req[t].name] = 0
         /\ scriptCache[req[t].name] = NoContent

\* C12: a synchronous request ends 429, 400 or 200 and in no other way: 429
\* exactly when the limiter denied it, 400 when its name or body is invalid,
\* and 200 with the script's value when the run returned without error.
C12_SyncOutcomes ==
  [][\A t \in Tasks :
       (req[t].kind = "sync" /\ pc[t] # "done" /\ pc'[t] = "done") =>
         /\ resp'[t].code \in {429, 400, 200}
         /\ resp'[t].code = 429 <=>
              (pc[t] = "allow" /\ ~AllowOk(limiters[limiter[t]], now))
         /\ (pc[t] = "allow" /\ AllowOk(limiters[limiter[t]], now)) =>
              resp'[t].code = 400
         /\ resp'[t].code = 200 =>
              /\ pc[t] \in {"r_eval", "r_http"}
              /\ resp'[t].body = ScriptValue(content[t], req[t].payload)
    ]_vars

\* A step in which runLuaScript, evaluating a script, returns to the
\* synchronous handler of task t.
RunEnds(t) ==
  /\ req[t].kind = "sync"
  /\ pc[t] \in {"r_eval", "r_http"}
  /\ pc'[t] = "done"

\* C13: a run of a script that calls httpGet or httpPost, with an empty
\* table or not, ends without error whatever the outbound call did.
C13_HostCallNeverAborts ==
  [][\A t \in Tasks :
       (RunEnds(t) /\ content[t] \in {"hdr", "post", "post0"}) =>
         resp'[t].code = 200
    ]_vars

\* C14: a run that ends without error returns the script's final value as
\* text, and the empty string when the script returned no value.
C14_ReturnValueOrEmpty ==
  [][\A t \in Tasks :
       (RunEnds(t) /\ resp'[t].code = 200) =>
         resp'[t].body =
           CASE content[t] = "noret" -> ""
             [] req[t].payload = "p" -> "Hello, p!"
             [] OTHER -> "Hello, q!"
    ]_vars

\* C15: while a run waits for its outbound call, its interpreter is open and
\* holds the payload of its own request and the headers its own script set,
\* whatever the other runs do; an interpreter is open only during its run,
\* and is closed when the run ends, with a value or with an error; the value
\* a run returns is built from its own payload.
C15_RunsAreIsolated ==
  [][\A t \in Tasks :
       /\ pc'[t] = "r_http" =>
            /\ lstates'[t].state = "open"
            /\ lstates'[t].payload = req'[t].payload
            /\ lstates'[t].headers =
                 IF content'[t] = "hdr" THEN ("X" :> "v2" @@ "Y" :> "v1")
                 ELSE ("X" :> NoHeader @@ "Y" :> NoHeader)
       /\ lstates'[t].state = "open" => pc'[t] = "r_http"
       /\ RunEnds(t) =>
            /\ lstates'[t].state = "closed"
            /\ resp'[t].code = 200 =>
                 resp'[t].body = ScriptValue(content[t], req[t].payload)
    ]_vars

\* C15's case: two runs wait for their outbound calls at once, with
\* different payloads and different headers.
C15_Witness ==
  \E t, u \in Tasks :
    /\ pc[t] = "r_http" /\ pc[u] = "r_http"
    /\ lstates[t].payload = "p" /\ lstates[u].payload = "q"
    /\ lstates[t].headers # lstates[u].headers

\* C17: after a script's setHeader calls its headers table maps each key to
\* the value of the last call for the key, and when the run ends the table
\* is handed to the caller, which answers with it.
C17_HeadersLastWriteWinsAndReturned ==
  [][\A t \in Tasks :
       /\ (pc'[t] = "r_http" /\ content'[t] = "hdr") =>
            lstates'[t].headers = ("X" :> "v2" @@ "Y" :> "v1")
       /\ (RunEnds(t) /\ pc[t] = "r_http") =>
            resp'[t].headers = lstates[t].headers
    ]_vars

\* Task t holds one of the two locks.
HoldsLock(t) == mtx = t \/ rw.writer = t \/ t \in rw.readers

\* Task t is at a Lock() or RLock() call it has not passed.
AtLock(t) ==
  /\ pc[t] \in {"getVisitor", "addVisitor", "r_lookup", "r_store"}
  /\ ~HoldsLock(t)

\* C16: a task that reads a script file, evaluates a script or waits for an
\* outbound call holds neither mtx nor scriptCacheMutex; a lock is held
\* only by a task at the map operation the lock guards; and every task at a
\* Lock() or RLock() call gets past it.
C16_NoLockAcrossBlockingStep ==
  /\ [](\A t \in Tasks :
         /\ pc[t] \in {"r_read", "r_eval", "r_http"} => ~HoldsLock(t)
         /\ mtx = t => pc[t] \in {"getVisitor", "addVisitor"}
         /\ t \in rw.readers => pc[t] = "r_lookup"
         /\ rw.writer = t => pc[t] = "r_store"
         /\ rw.writer # NoTask => rw.readers = {})
  /\ \A t \in Tasks : AtLock(t) ~> ~AtLock(t)

\* C16's case: one task waits for its outbound call while another holds
\* the script-cache lock for its insert.
C16_Witness ==
  \E t, u \in Tasks :
    /\ t # u
    /\ pc[t] = "r_http"
    /\ rw.writer = u

\* The places of a task inside a handler or a background goroutine.
HandlerPcs ==
  {"p_lookup", "p_finished", "p_result", "p_error", "a_assign", "a_store",
   "r_lookup", "r_read", "r_store", "r_eval", "r_http", "c_finished",
   "c_result", "c_error"}

\* C18: the limiter stands before every entry, the poll included: a request
\* enters a handler only by an Allow step that found a token, and that step
\* takes the token; a request that finds no token is answered 429 and its
\* handler never runs, so a denied poll does not read the job map.
C18_PollsAreRateLimited ==
  [][\A t \in Tasks :
       /\ (pc[t] \notin HandlerPcs /\ pc'[t] \in HandlerPcs) =>
            /\ pc[t] = "allow"
            /\ Advance(limiters[limiter[t]], now) >= TicksPerSec
            /\ limiters'[limiter[t]].tokens =
                 Advance(limiters[limiter[t]], now) - TicksPerSec
       /\ (pc[t] = "allow" /\ pc'[t] # "allow" /\ ~crashed'
             /\ Advance(limiters[limiter[t]], now) < TicksPerSec) =>
            /\ pc'[t] = "done"
            /\ resp'[t].code = 429
            /\ limiters' = limiters
    ]_vars

\* C18's case: a poll of a job whose id was handed back is answered 429,
\* the client's tokens having gone to its earlier requests, polls among them.
C18_Witness ==
  \E p, q \in Tasks :
    /\ req[p].kind = "poll" /\ req[p].id \in ReturnedIds
    /\ pc[p] = "done" /\ resp[p].code = 429
    /\ req[q].kind = "poll" /\ pc[q] = "done" /\ resp[q].code = 200

\* C19: a load that finds no file ends the run with the error, puts nothing
\* into the cache and makes no interpreter; a load of a name that is not
\* cached reads the disk, and succeeds with the file's content when the
\* file is there.
C19_FailedLoadNotCached ==
  [][\A t \in Tasks :
       /\ (pc[t] = "r_read" /\ pc'[t] # "r_read"
             /\ disk[req[t].name] = NoContent) =>
            /\ pc'[t] = "done"
            /\ resp'[t].code = 400 /\ resp'[t].body = "ENOENT"
            /\ scriptCache' = scriptCache
            /\ lstates' = lstates
       /\ (pc[t] = "r_lookup" /\ pc'[t] # "r_lookup"
             /\ scriptCache[req[t].name] = NoContent) =>
            pc'[t] = "r_read"
       /\ (pc[t] = "r_read" /\ pc'[t] # "r_read"
             /\ disk[req[t].name] \in Contents) =>
            /\ pc'[t] = "r_store"
            /\ content'[t] = disk[req[t].name]
            /\ reads'[req[t].name] = reads[req[t].name] + 1
    ]_vars

\* C19's case: a load failed for want of the file, the file appeared, and a
\* later load read it and the run succeeded.
C19_Witness ==
  \E t, u \in Tasks :
    /\ t < u
    /\ pc[t] = "done" /\ resp[t].code = 400 /\ resp[t].body = "ENOENT"
    /\ pc[u] = "done" /\ resp[u].code = 200
    /\ reads["gone.lua"] = 2

=============================================================================
